---- MODULE Spec2Model ----
(***************************************************************************)
(* Planning-poker session coordinator: the socket event handlers of        *)
(* flask/app.py on top of the game manager (gamestate.game_manager), the   *)
(* deck catalog and the durable record store (gamestate.models).           *)
(*                                                                         *)
(* The handlers are translated from flask/app.py.  The game manager, the   *)
(* deck catalog and the record store are not part of the source tree at    *)
(* hand; their operators follow sections 3, 4, 6 and 7 of the              *)
(* specification.  Every event handler runs to completion before the next  *)
(* event is handled (one action per handler), which is the per-session     *)
(* mutual exclusion section 5 of the specification mandates.               *)
(*                                                                         *)
(* A handler is an operator from the server state and the event's payload  *)
(* to an outcome: the state it leaves, what it returns to the originating  *)
(* connection and the messages it emits.  The action of a handler applies  *)
(* that outcome to the variables.                                          *)
(***************************************************************************)
EXTENDS Integers, Sequences, FiniteSets, TLC

(* ------------------------------ bounds -------------------------------- *)
\* connections (socket ids) that exist over a run
NConn == 2
\* sessions that can ever be created (ids 1..MaxGames); MaxGames+1 is never created
MaxGames == 2
\* participant ids handed out over a run (uuid4 values are modelled as 1, 2, ...)
MaxPlayers == 2
\* the turn counter is capped in end_turn's guard
MaxTurn == 1

Conns == 1..NConn
GameIds == 1..MaxGames
\* the 'game' field of a join payload: every id that can exist and one that never does
GameInputs == 1..(MaxGames + 1)
PlayerIds == 1..MaxPlayers

(* ------------------------- values of the program ---------------------- *)
\* session[...] of a connection that never stored the key: reading it raises KeyError
Unset == -1
\* Python None as a stored player or game id
NoneId == 0
\* Python None as a participant's pick ("unset")
NoPick == "none"
\* what a snapshot shows in place of a pick that is withheld
Withheld == "withheld"

GameNames == {"S", "T"}
\* the 'name' field of a rename_game payload; the empty name is rejected
GameNameInputs == GameNames \cup {""}
PlayerNames == {"A", "B"}
\* the names the events of a run carry (the handlers are checked on all of
\* GameNameInputs and PlayerNames in every state a run reaches)
RunGameNames == {"S"}
RunRenames == {"S", ""}
RunPlayerNames == {"A"}

(* ----------------------------- deck catalog --------------------------- *)
DeckNames == {"FIBONACCI", "TSHIRTS"}
DefaultDeck == "FIBONACCI"
\* the 'deck' field of a payload: the known names and one the catalog does not know
DeckInputs == DeckNames \cup {"BOGUS"}
\* both decks hold the label "?"
Cards(deck) == IF deck = "FIBONACCI" THEN {"1", "?"} ELSE {"S", "?"}
CardInputs == {"1", "S", "?"}

\* resolve(name): the named deck if known, else the default deck; never fails
Resolve(name) == IF name \in DeckNames THEN name ELSE DefaultDeck

\* contains(card, deck)
Contains(card, deck) == card \in Cards(Resolve(deck))

(* ------------------------------- state -------------------------------- *)
VARIABLES
    stored,     \* durable record store: game id -> [name, deck]
    games,      \* the game manager's live games: game id -> game
    session,    \* per connection: [player_id, game_id] (flask session of the socket)
    rooms,      \* per connection: the broadcast rooms it is a member of
    connected,  \* per connection: "new" (not yet opened), "open" or "closed"
    nextPid,    \* the next fresh participant id (uuid4)
    nextGame,   \* the next fresh game id (uuid4)
    lastPick    \* history: per participant id, the card of its last accepted pick
                \* since its game last started a round (NoPick if none)

vars == <<stored, games, session, rooms, connected, nextPid, nextGame, lastPick>>

\* the server state as one value
S == [stored |-> stored, games |-> games, session |-> session, rooms |-> rooms,
      connected |-> connected, nextPid |-> nextPid, nextGame |-> nextGame]

(* ------------------------------ helpers ------------------------------- *)
Put(f, k, v) == [x \in (DOMAIN f) \cup {k} |-> IF x = k THEN v ELSE f[x]]
Drop(f, k) == [x \in (DOMAIN f) \ {k} |-> f[x]]
EmptyMap == [x \in {} |-> 0]

(* -------------------- game manager (gamestate package) ---------------- *)
\* a participant as the roster holds it
Player(name, spectator) == [name |-> name, spectator |-> spectator, pick |-> NoPick]

\* an empty live game: no participants, revealed=false, first turn
NewGame(name, deck) ==
    [name |-> name, deck |-> Resolve(deck), revealed |-> FALSE, turn |-> 0,
     players |-> EmptyMap]

\* a session is addressable when it is live or has a durable record
Known(s, g) == g \in DOMAIN s.games \/ g \in DOMAIN s.stored

\* get(id) that builds a session from the durable record on every call
GetGame_fresh(s, g) ==
    IF g \in DOMAIN s.stored THEN NewGame(s.stored[g].name, s.stored[g].deck)
    ELSE s.games[g]

\* get(id): the live game, lazily rebuilt from the durable record when there is none
GetGame(s, g) ==
    IF g \in DOMAIN s.games THEN s.games[g]
    ELSE NewGame(s.stored[g].name, s.stored[g].deck)

\* what a participant's entry of a snapshot shows: the pick only once revealed
PlayerState(player, revealed) ==
    [displayName |-> player.name, isSpectator |-> player.spectator,
     hasPicked |-> player.pick # NoPick,
     pick |-> IF revealed THEN player.pick ELSE Withheld]

\* the state snapshot of a game
State(g, game) ==
    [sessionId |-> g, name |-> game.name, deck |-> game.deck,
     revealed |-> game.revealed, turn |-> game.turn,
     participants |-> [p \in DOMAIN game.players |->
                          PlayerState(game.players[p], game.revealed)]]

\* the informational payload of a game
Info(g, game) == [sessionId |-> g, name |-> game.name, deck |-> game.deck]

\* every pick unset
ClearPicks(players) == [p \in DOMAIN players |-> [players[p] EXCEPT !.pick = NoPick]]

\* join: a new roster entry with no pick
JoinGame(game, pid, name, spectator) ==
    [game EXCEPT !.players = Put(@, pid, Player(name, spectator))]

\* leave: the entry removed if present, nothing otherwise
LeaveGame(game, pid) == [game EXCEPT !.players = Drop(@, pid)]

\* rename: the name replaced
RenameGame(game, name) == [game EXCEPT !.name = name]

\* setDeck that starts a round only when the deck changes
SetDeck_changed(game, deck) ==
    IF Resolve(deck) = game.deck THEN game
    ELSE [game EXCEPT !.deck = Resolve(deck), !.players = ClearPicks(@),
                      !.revealed = FALSE]

\* setDeck: deck resolved and replaced, picks cleared, revealed=false
SetDeck(game, deck) ==
    [game EXCEPT !.deck = Resolve(deck), !.players = ClearPicks(@), !.revealed = FALSE]

\* setParticipantName, setSpectator: one field of one roster entry
SetPlayerName(game, pid, name) == [game EXCEPT !.players[pid].name = name]
SetPlayerSpectator(game, pid, spectator) ==
    [game EXCEPT !.players[pid].spectator = spectator]

\* pick: the participant's currentPick set, before or after reveal
PickCard(game, pid, card) == [game EXCEPT !.players[pid].pick = card]

\* reveal: revealed=true, a no-op without participants
RevealCards(game) ==
    IF DOMAIN game.players = {} THEN game ELSE [game EXCEPT !.revealed = TRUE]

\* endTurn: turn incremented, picks cleared, revealed=false
EndTurn(game) ==
    [game EXCEPT !.turn = @ + 1, !.players = ClearPicks(@), !.revealed = FALSE]

\* the exception an operation raises, "" when it raises none
GameErr(s, g) == IF Known(s, g) THEN "" ELSE "NotFound"
PlayerErr(s, g, pid) ==
    IF ~Known(s, g) THEN "NotFound"
    ELSE IF pid \notin DOMAIN GetGame(s, g).players THEN "NotFound" ELSE ""
RenameErr(s, g, name) ==
    IF ~Known(s, g) THEN "NotFound" ELSE IF name = "" THEN "InvalidInput" ELSE ""
PickErr(s, g, pid, card) ==
    IF PlayerErr(s, g, pid) # "" THEN PlayerErr(s, g, pid)
    ELSE IF ~Contains(card, GetGame(s, g).deck) THEN "InvalidInput" ELSE ""

\* the live game replaced (registered when it was not live)
SetGame(s, g, game) == [s EXCEPT !.games = Put(@, g, game)]

\* the live game replaced, name and deck written through to the durable record
SetGameAndRecord(s, g, game) ==
    [s EXCEPT !.games = Put(@, g, game),
              !.stored = Put(@, g, [name |-> game.name, deck |-> game.deck])]

(* ----------------------- transport (flask/app.py) --------------------- *)
NoInfo == [sessionId |-> NoneId, name |-> "", deck |-> ""]
\* a handler that returns nothing
NoReply == [kind |-> "none", error |-> FALSE, message |-> "", code |-> "",
            info |-> NoInfo, playerId |-> NoneId]

\* PlanningPokerException and its subclasses carry a code; KeyError does not
IsPlanningPokerException(e) == e \in {"NotFound", "InvalidInput"}

\* on_error_handler(e): the structured body returned to the originating connection
on_error_handler(e) ==
    [kind |-> "error", error |-> TRUE, message |-> e,
     code |-> IF IsPlanningPokerException(e) THEN e ELSE "0",
     info |-> NoInfo, playerId |-> NoneId]

\* emit(event, payload, to=room): delivered to the open connections in the room
Emit(s, event, to, payload) ==
    [event |-> event, to |-> to, payload |-> payload,
     rcpt |-> {d \in Conns : s.connected[d] = "open" /\ to \in s.rooms[d]}]

\* the outcome of a handler that returns normally
Out(s, rep, msgs) == [st |-> s, ok |-> TRUE, reply |-> rep, emitted |-> msgs]

\* the outcome of a handler an exception leaves: socketio hands it to on_error_handler
Raise(s, e) == [st |-> s, ok |-> FALSE, reply |-> on_error_handler(e), emitted |-> <<>>]

\* the outcome of a view an exception leaves: flask propagates it to the caller
\* of the request (no handler of the module catches it)
Propagate(s, e) ==
    [st |-> s, ok |-> FALSE,
     reply |-> [NoReply EXCEPT !.kind = "exception", !.error = TRUE, !.message = e],
     emitted |-> <<>>]

\* create that catches the failure of the store and answers with an id all the
\* same, the session registered without a record
create_swallow(s, name, deck, up) ==
    LET g == s.nextGame
        game == NewGame(name, deck)
    IN IF ~up THEN Out(SetGame([s EXCEPT !.nextGame = @ + 1], g, game),
                       [NoReply EXCEPT !.kind = "id", !.info.sessionId = g], <<>>)
       ELSE Out(SetGameAndRecord([s EXCEPT !.nextGame = @ + 1], g, game),
                [NoReply EXCEPT !.kind = "id", !.info.sessionId = g], <<>>)

\* POST /create; up: the write of the durable record succeeds.  When it fails the
\* exception of the store leaves the view and no game is registered
create(s, name, deck, up) ==
    LET g == s.nextGame
        game == NewGame(name, deck)
    IN IF ~up THEN Propagate(s, "StoreUnavailable")
       ELSE Out(SetGameAndRecord([s EXCEPT !.nextGame = @ + 1], g, game),
                [NoReply EXCEPT !.kind = "id", !.info.sessionId = g], <<>>)

\* join that gives the joiner the lowest id that is free in the roster of the game
join_reuse(s, c, name, spectator, g) ==
    LET taken == IF Known(s, g) THEN DOMAIN GetGame(s, g).players ELSE {}
        pid == CHOOSE p \in 1..(Cardinality(taken) + 1) :
                  p \notin taken /\ \A q \in 1..(p - 1) : q \in taken
        s1 == [s EXCEPT !.nextPid = @ + 1,
                        !.session[c] = [player_id |-> pid, game_id |-> g],
                        !.rooms[c] = @ \cup {g}]
    IN IF GameErr(s1, g) # "" THEN Raise(s1, GameErr(s1, g))
       ELSE LET game == JoinGame(GetGame(s1, g), pid, name, spectator)
                s2 == SetGame(s1, g, game)
            IN Out(s2, [NoReply EXCEPT !.kind = "info", !.info = Info(g, game),
                                        !.playerId = pid],
                   <<Emit(s2, "state", g, State(g, game))>>)

\* the 'join' event
join(s, c, name, spectator, g) ==
    LET pid == s.nextPid
        s1 == [s EXCEPT !.nextPid = @ + 1,
                        !.session[c] = [player_id |-> pid, game_id |-> g],
                        !.rooms[c] = @ \cup {g}]
    IN IF GameErr(s1, g) # "" THEN Raise(s1, GameErr(s1, g))
       ELSE LET game == JoinGame(GetGame(s1, g), pid, name, spectator)
                s2 == SetGame(s1, g, game)
            IN Out(s2, [NoReply EXCEPT !.kind = "info", !.info = Info(g, game),
                                        !.playerId = pid],
                   <<Emit(s2, "state", g, State(g, game))>>)

\* socketio, once the disconnect handler has ended: the socket is closed and is a
\* member of no room
Close(s, c) == [s EXCEPT !.connected[c] = "closed", !.rooms[c] = {}]

\* disconnect that leaves the room and resets the session without leave_game
disconnect_keep(s, c) ==
    LET pid == s.session[c].player_id
        g == s.session[c].game_id
    IN IF pid = Unset \/ g = Unset THEN Raise(Close(s, c), "KeyError")
       ELSE IF GameErr(s, g) # "" THEN Raise(Close(s, c), GameErr(s, g))
       ELSE LET game == GetGame(s, g)
                s1 == [SetGame(s, g, game) EXCEPT !.rooms[c] = @ \ {g}]
                s2 == [s1 EXCEPT !.session[c] = [player_id |-> NoneId,
                                                  game_id |-> NoneId]]
            IN Out(Close(s2, c), NoReply, <<Emit(s1, "state", g, State(g, game))>>)

\* disconnect that retires a session, its durable record included, when its last
\* participant leaves
disconnect_retire(s, c) ==
    LET pid == s.session[c].player_id
        g == s.session[c].game_id
    IN IF pid = Unset \/ g = Unset THEN Raise(Close(s, c), "KeyError")
       ELSE IF GameErr(s, g) # "" THEN Raise(Close(s, c), GameErr(s, g))
       ELSE LET game == LeaveGame(GetGame(s, g), pid)
                s1 == [SetGame(s, g, game) EXCEPT !.rooms[c] = @ \ {g}]
                s2 == [s1 EXCEPT !.session[c] = [player_id |-> NoneId,
                                                  game_id |-> NoneId]]
                s3 == IF DOMAIN game.players = {}
                      THEN [s2 EXCEPT !.games = Drop(@, g), !.stored = Drop(@, g)]
                      ELSE s2
            IN Out(Close(s3, c), NoReply, <<Emit(s1, "state", g, State(g, game))>>)

\* the 'disconnect' event
disconnect(s, c) ==
    LET pid == s.session[c].player_id
        g == s.session[c].game_id
    IN IF pid = Unset \/ g = Unset THEN Raise(Close(s, c), "KeyError")
       ELSE IF GameErr(s, g) # "" THEN Raise(Close(s, c), GameErr(s, g))
       ELSE LET game == LeaveGame(GetGame(s, g), pid)
                s1 == [SetGame(s, g, game) EXCEPT !.rooms[c] = @ \ {g}]
                s2 == [s1 EXCEPT !.session[c] = [player_id |-> NoneId,
                                                  game_id |-> NoneId]]
            IN Out(Close(s2, c), NoReply, <<Emit(s1, "state", g, State(g, game))>>)

\* the 'rename_game' event
rename_game(s, c, name) ==
    LET g == s.session[c].game_id
    IN IF g = Unset THEN Raise(s, "KeyError")
       ELSE IF RenameErr(s, g, name) # "" THEN Raise(s, RenameErr(s, g, name))
       ELSE LET game == RenameGame(GetGame(s, g), name)
                s1 == SetGameAndRecord(s, g, game)
            IN Out(s1, NoReply, <<Emit(s1, "info", g, Info(g, game))>>)

\* set_deck that changes the live game only and leaves the durable record alone
set_deck_live(s, c, deck) ==
    LET g == s.session[c].game_id
    IN IF g = Unset THEN Raise(s, "KeyError")
       ELSE IF GameErr(s, g) # "" THEN Raise(s, GameErr(s, g))
       ELSE LET game == SetDeck(GetGame(s, g), deck)
                s1 == SetGame(s, g, game)
            IN Out(s1, NoReply, <<Emit(s1, "info", g, Info(g, game)),
                                  Emit(s1, "state", g, State(g, game))>>)

\* set_deck that takes the deck name of the payload as it is
set_deck_raw(s, c, deck) ==
    LET g == s.session[c].game_id
    IN IF g = Unset THEN Raise(s, "KeyError")
       ELSE IF GameErr(s, g) # "" THEN Raise(s, GameErr(s, g))
       ELSE LET game == [SetDeck(GetGame(s, g), deck) EXCEPT !.deck = deck]
                s1 == SetGameAndRecord(s, g, game)
            IN Out(s1, NoReply, <<Emit(s1, "info", g, Info(g, game)),
                                  Emit(s1, "state", g, State(g, game))>>)

\* set_deck that starts the new round as end_turn does, the turn counted up
set_deck_turn(s, c, deck) ==
    LET g == s.session[c].game_id
    IN IF g = Unset THEN Raise(s, "KeyError")
       ELSE IF GameErr(s, g) # "" THEN Raise(s, GameErr(s, g))
       ELSE LET game == EndTurn(SetDeck(GetGame(s, g), deck))
                s1 == SetGameAndRecord(s, g, game)
            IN Out(s1, NoReply, <<Emit(s1, "info", g, Info(g, game)),
                                  Emit(s1, "state", g, State(g, game))>>)

\* the 'set_deck' event
set_deck(s, c, deck) ==
    LET g == s.session[c].game_id
    IN IF g = Unset THEN Raise(s, "KeyError")
       ELSE IF GameErr(s, g) # "" THEN Raise(s, GameErr(s, g))
       ELSE LET game == SetDeck(GetGame(s, g), deck)
                s1 == SetGameAndRecord(s, g, game)
            IN Out(s1, NoReply, <<Emit(s1, "info", g, Info(g, game)),
                                  Emit(s1, "state", g, State(g, game))>>)

\* the 'set_player_name' event
set_player_name(s, c, name) ==
    LET pid == s.session[c].player_id
        g == s.session[c].game_id
    IN IF pid = Unset \/ g = Unset THEN Raise(s, "KeyError")
       ELSE IF PlayerErr(s, g, pid) # "" THEN Raise(s, PlayerErr(s, g, pid))
       ELSE LET game == SetPlayerName(GetGame(s, g), pid, name)
                s1 == SetGame(s, g, game)
            IN Out(s1, NoReply, <<Emit(s1, "state", g, State(g, game))>>)

\* the 'set_spectator' event
set_spectator(s, c, spectator) ==
    LET pid == s.session[c].player_id
        g == s.session[c].game_id
    IN IF pid = Unset \/ g = Unset THEN Raise(s, "KeyError")
       ELSE IF PlayerErr(s, g, pid) # "" THEN Raise(s, PlayerErr(s, g, pid))
       ELSE LET game == SetPlayerSpectator(GetGame(s, g), pid, spectator)
                s1 == SetGame(s, g, game)
            IN Out(s1, NoReply, <<Emit(s1, "state", g, State(g, game))>>)

\* pick_card that answers a rejected pick and also broadcasts the unchanged state
pick_card_loud(s, c, card) ==
    LET pid == s.session[c].player_id
        g == s.session[c].game_id
    IN IF pid = Unset \/ g = Unset THEN Raise(s, "KeyError")
       ELSE IF PickErr(s, g, pid, card) # ""
       THEN [Raise(s, PickErr(s, g, pid, card)) EXCEPT
                !.emitted = IF Known(s, g)
                            THEN <<Emit(s, "state", g, State(g, GetGame(s, g)))>>
                            ELSE <<>>]
       ELSE LET game == PickCard(GetGame(s, g), pid, card)
                s1 == SetGame(s, g, game)
            IN Out(s1, NoReply, <<Emit(s1, "state", g, State(g, game))>>)

\* pick_card that takes the participant id from a module-level variable which
\* every join overwrites (the id of the latest join) instead of the session
pick_card_shared(s, c, card) ==
    LET pid == s.nextPid - 1
        g == s.session[c].game_id
    IN IF s.session[c].player_id = Unset \/ g = Unset THEN Raise(s, "KeyError")
       ELSE IF PickErr(s, g, pid, card) # "" THEN Raise(s, PickErr(s, g, pid, card))
       ELSE LET game == PickCard(GetGame(s, g), pid, card)
                s1 == SetGame(s, g, game)
            IN Out(s1, NoReply, <<Emit(s1, "state", g, State(g, game))>>)

\* pick_card that shows the picker's card in the snapshot it broadcasts
pick_card_echo(s, c, card) ==
    LET pid == s.session[c].player_id
        g == s.session[c].game_id
    IN IF pid = Unset \/ g = Unset THEN Raise(s, "KeyError")
       ELSE IF PickErr(s, g, pid, card) # "" THEN Raise(s, PickErr(s, g, pid, card))
       ELSE LET game == PickCard(GetGame(s, g), pid, card)
                s1 == SetGame(s, g, game)
            IN Out(s1, NoReply,
                   <<Emit(s1, "state", g,
                          [State(g, game) EXCEPT !.participants[pid].pick = card])>>)

\* pick_card that does not validate the card against the deck
pick_card_any(s, c, card) ==
    LET pid == s.session[c].player_id
        g == s.session[c].game_id
    IN IF pid = Unset \/ g = Unset THEN Raise(s, "KeyError")
       ELSE IF PlayerErr(s, g, pid) # "" THEN Raise(s, PlayerErr(s, g, pid))
       ELSE LET game == PickCard(GetGame(s, g), pid, card)
                s1 == SetGame(s, g, game)
            IN Out(s1, NoReply, <<Emit(s1, "state", g, State(g, game))>>)

\* the 'pick_card' event
pick_card(s, c, card) ==
    LET pid == s.session[c].player_id
        g == s.session[c].game_id
    IN IF pid = Unset \/ g = Unset THEN Raise(s, "KeyError")
       ELSE IF PickErr(s, g, pid, card) # "" THEN Raise(s, PickErr(s, g, pid, card))
       ELSE LET game == PickCard(GetGame(s, g), pid, card)
                s1 == SetGame(s, g, game)
            IN Out(s1, NoReply, <<Emit(s1, "state", g, State(g, game))>>)

\* reveal_cards that broadcasts the snapshot taken before the cards are revealed
reveal_cards_stale(s, c) ==
    LET g == s.session[c].game_id
    IN IF g = Unset THEN Raise(s, "KeyError")
       ELSE IF GameErr(s, g) # "" THEN Raise(s, GameErr(s, g))
       ELSE LET game == RevealCards(GetGame(s, g))
                s1 == SetGame(s, g, game)
            IN Out(s1, NoReply, <<Emit(s1, "state", g, State(g, GetGame(s, g))),
                                  Emit(s1, "info", g, Info(g, game))>>)

\* reveal_cards that sets the revealed flag whether or not anyone is in the roster
reveal_cards_always(s, c) ==
    LET g == s.session[c].game_id
    IN IF g = Unset THEN Raise(s, "KeyError")
       ELSE IF GameErr(s, g) # "" THEN Raise(s, GameErr(s, g))
       ELSE LET game == [GetGame(s, g) EXCEPT !.revealed = TRUE]
                s1 == SetGame(s, g, game)
            IN Out(s1, NoReply, <<Emit(s1, "state", g, State(g, game)),
                                  Emit(s1, "info", g, Info(g, game))>>)

\* the 'reveal_cards' event
reveal_cards(s, c) ==
    LET g == s.session[c].game_id
    IN IF g = Unset THEN Raise(s, "KeyError")
       ELSE IF GameErr(s, g) # "" THEN Raise(s, GameErr(s, g))
       ELSE LET game == RevealCards(GetGame(s, g))
                s1 == SetGame(s, g, game)
            IN Out(s1, NoReply, <<Emit(s1, "state", g, State(g, game)),
                                  Emit(s1, "info", g, Info(g, game))>>)

\* end_turn that broadcasts the snapshot taken before the turn is ended
end_turn_stale(s, c) ==
    LET g == s.session[c].game_id
    IN IF g = Unset THEN Raise(s, "KeyError")
       ELSE IF GameErr(s, g) # "" THEN Raise(s, GameErr(s, g))
       ELSE LET game == EndTurn(GetGame(s, g))
                s1 == SetGame(s, g, game)
            IN Out(s1, NoReply, <<Emit(s1, "state", g, State(g, GetGame(s, g))),
                                  Emit(s1, "info", g, Info(g, game)),
                                  Emit(s1, "new_game", g, NoInfo)>>)

\* end_turn that calls the game manager's reveal (the body of reveal_cards, copied)
end_turn_copied(s, c) ==
    LET g == s.session[c].game_id
    IN IF g = Unset THEN Raise(s, "KeyError")
       ELSE IF GameErr(s, g) # "" THEN Raise(s, GameErr(s, g))
       ELSE LET game == RevealCards(GetGame(s, g))
                s1 == SetGame(s, g, game)
            IN Out(s1, NoReply, <<Emit(s1, "state", g, State(g, game)),
                                  Emit(s1, "info", g, Info(g, game)),
                                  Emit(s1, "new_game", g, NoInfo)>>)

\* end_turn that starts a new round in every live game
end_turn_all(s, c) ==
    LET g == s.session[c].game_id
    IN IF g = Unset THEN Raise(s, "KeyError")
       ELSE IF GameErr(s, g) # "" THEN Raise(s, GameErr(s, g))
       ELSE LET game == EndTurn(GetGame(s, g))
                s1 == [SetGame(s, g, game) EXCEPT
                          !.games = [h \in DOMAIN @ |->
                                        IF h = g THEN @[h] ELSE EndTurn(@[h])]]
            IN Out(s1, NoReply, <<Emit(s1, "state", g, State(g, game)),
                                  Emit(s1, "info", g, Info(g, game)),
                                  Emit(s1, "new_game", g, NoInfo)>>)

\* the 'end_turn' event
end_turn(s, c) ==
    LET g == s.session[c].game_id
    IN IF g = Unset THEN Raise(s, "KeyError")
       ELSE IF GameErr(s, g) # "" THEN Raise(s, GameErr(s, g))
       ELSE LET game == EndTurn(GetGame(s, g))
                s1 == SetGame(s, g, game)
            IN Out(s1, NoReply, <<Emit(s1, "state", g, State(g, game)),
                                  Emit(s1, "info", g, Info(g, game)),
                                  Emit(s1, "new_game", g, NoInfo)>>)

(* ------------------------------ actions ------------------------------- *)
\* the variables take the state an outcome leaves
Apply(r) ==
    /\ stored' = r.st.stored
    /\ games' = r.st.games
    /\ session' = r.st.session
    /\ rooms' = r.st.rooms
    /\ connected' = r.st.connected
    /\ nextPid' = r.st.nextPid
    /\ nextGame' = r.st.nextGame

\* history: the picks of the roster of game g count as not made (a round starts)
ForgetPicks(s, g) ==
    [p \in PlayerIds |->
        IF p \in DOMAIN s.games[g].players THEN NoPick ELSE lastPick[p]]

\* the session key a live connection holds, Unset when it holds none
GameOf(s, c) == s.session[c].game_id
PlayerOf(s, c) == s.session[c].player_id

\* a client opens a socket (a socket id is never used twice): a fresh flask
\* session, no room of a game
Connect(c) ==
    /\ connected[c] = "new"
    /\ connected' = [connected EXCEPT ![c] = "open"]
    /\ UNCHANGED <<stored, games, session, rooms, nextPid, nextGame, lastPick>>

Create(name, deck, up) ==
    /\ nextGame <= MaxGames
    /\ Apply(create(S, name, deck, up))
    /\ UNCHANGED lastPick

\* the ids a client can name: those create has handed out, and one that no create
\* ever hands out (a uuid4 that create will hand out later cannot be named)
Nameable(s) == {g \in GameInputs : g < s.nextGame \/ g > MaxGames}

Join(c, name, spectator, g) ==
    /\ connected[c] = "open"
    /\ g \in Nameable(S)
    /\ nextPid <= MaxPlayers
    /\ Apply(join(S, c, name, spectator, g))
    /\ UNCHANGED lastPick

Disconnect(c) ==
    /\ connected[c] = "open"
    /\ Apply(disconnect(S, c))
    /\ UNCHANGED lastPick

RenameGameEv(c, name) ==
    /\ connected[c] = "open"
    /\ Apply(rename_game(S, c, name))
    /\ UNCHANGED lastPick

SetDeckEv(c, deck) ==
    /\ connected[c] = "open"
    /\ LET r == set_deck(S, c, deck)
       IN /\ Apply(r)
          /\ lastPick' = IF r.ok THEN ForgetPicks(r.st, GameOf(S, c)) ELSE lastPick

SetPlayerNameEv(c, name) ==
    /\ connected[c] = "open"
    /\ Apply(set_player_name(S, c, name))
    /\ UNCHANGED lastPick

SetSpectatorEv(c, spectator) ==
    /\ connected[c] = "open"
    /\ Apply(set_spectator(S, c, spectator))
    /\ UNCHANGED lastPick

PickCardEv(c, card) ==
    /\ connected[c] = "open"
    /\ LET r == pick_card(S, c, card)
       IN /\ Apply(r)
          /\ lastPick' = IF r.ok THEN [lastPick EXCEPT ![PlayerOf(S, c)] = card]
                         ELSE lastPick

RevealCardsEv(c) ==
    /\ connected[c] = "open"
    /\ Apply(reveal_cards(S, c))
    /\ UNCHANGED lastPick

EndTurnEv(c) ==
    /\ connected[c] = "open"
    /\ LET r == end_turn(S, c)
       IN /\ r.ok => r.st.games[GameOf(S, c)].turn <= MaxTurn
          /\ Apply(r)
          /\ lastPick' = IF r.ok THEN ForgetPicks(r.st, GameOf(S, c)) ELSE lastPick

\* the process is restarted: the game manager starts with no live game, every
\* socket of the old process is gone; the durable records stay
Restart ==
    /\ games # EmptyMap
    /\ games' = EmptyMap
    /\ connected' = [c \in Conns |-> IF connected[c] = "open" THEN "closed"
                                     ELSE connected[c]]
    /\ rooms' = [c \in Conns |-> {}]
    /\ lastPick' = [p \in PlayerIds |-> NoPick]
    /\ UNCHANGED <<stored, session, nextPid, nextGame>>

\* migrate_database.import_data_to_target, one game of games_data: the record is
\* created with the uuid, name and deck of the exported row, the deck as it is
ImportRecord(name, deck) ==
    /\ nextGame <= MaxGames
    /\ stored' = Put(stored, nextGame, [name |-> name, deck |-> deck])
    /\ nextGame' = nextGame + 1
    /\ UNCHANGED <<games, session, rooms, connected, nextPid, lastPick>>

(* --------------------------- specification ---------------------------- *)
Init ==
    /\ stored = EmptyMap
    /\ games = EmptyMap
    /\ session = [c \in Conns |-> [player_id |-> Unset, game_id |-> Unset]]
    /\ rooms = [c \in Conns |-> {}]
    /\ connected = [c \in Conns |-> "new"]
    /\ nextPid = 1
    /\ nextGame = 1
    /\ lastPick = [p \in PlayerIds |-> NoPick]

Next ==
    \/ \E c \in Conns : Connect(c)
    \/ \E name \in RunGameNames, deck \in DeckInputs, up \in BOOLEAN :
          Create(name, deck, up)
    \/ \E c \in Conns, name \in RunPlayerNames, spectator \in BOOLEAN, g \in GameInputs :
          Join(c, name, spectator, g)
    \/ \E c \in Conns : Disconnect(c)
    \/ \E c \in Conns, name \in RunRenames : RenameGameEv(c, name)
    \/ \E c \in Conns, deck \in DeckInputs : SetDeckEv(c, deck)
    \/ \E c \in Conns, name \in RunPlayerNames : SetPlayerNameEv(c, name)
    \/ \E c \in Conns, spectator \in BOOLEAN : SetSpectatorEv(c, spectator)
    \/ \E c \in Conns, card \in CardInputs : PickCardEv(c, card)
    \/ \E c \in Conns : RevealCardsEv(c)
    \/ \E c \in Conns : EndTurnEv(c)

Spec == Init /\ [][Next]_vars

\* the same server over restarts of the process and imports of records
NextRestart ==
    \/ Next
    \/ Restart
    \/ \E name \in RunGameNames, deck \in DeckInputs : ImportRecord(name, deck)

SpecRestart == Init /\ [][NextRestart]_vars

(* ------------------------- events and dispatch ------------------------ *)
\* one socket event: the handler's name, the connection and the payload
Event(op, c, name, spectator, g, deck, card) ==
    [op |-> op, conn |-> c, name |-> name, spectator |-> spectator, game |-> g,
     deck |-> deck, card |-> card]

SocketEvents ==
    {Event("join", c, n, sp, g, "", "") :
        c \in Conns, n \in PlayerNames, sp \in BOOLEAN, g \in GameInputs}
    \cup {Event("disconnect", c, "", FALSE, NoneId, "", "") : c \in Conns}
    \cup {Event("rename_game", c, n, FALSE, NoneId, "", "") :
             c \in Conns, n \in GameNameInputs}
    \cup {Event("set_deck", c, "", FALSE, NoneId, d, "") : c \in Conns, d \in DeckInputs}
    \cup {Event("set_player_name", c, n, FALSE, NoneId, "", "") :
             c \in Conns, n \in PlayerNames}
    \cup {Event("set_spectator", c, "", sp, NoneId, "", "") :
             c \in Conns, sp \in BOOLEAN}
    \cup {Event("pick_card", c, "", FALSE, NoneId, "", k) : c \in Conns, k \in CardInputs}
    \cup {Event("reveal_cards", c, "", FALSE, NoneId, "", "") : c \in Conns}
    \cup {Event("end_turn", c, "", FALSE, NoneId, "", "") : c \in Conns}

\* socketio's dispatch of an event to its handler
Handle(s, e) ==
    CASE e.op = "join" -> join(s, e.conn, e.name, e.spectator, e.game)
      [] e.op = "disconnect" -> disconnect(s, e.conn)
      [] e.op = "rename_game" -> rename_game(s, e.conn, e.name)
      [] e.op = "set_deck" -> set_deck(s, e.conn, e.deck)
      [] e.op = "set_player_name" -> set_player_name(s, e.conn, e.name)
      [] e.op = "set_spectator" -> set_spectator(s, e.conn, e.spectator)
      [] e.op = "pick_card" -> pick_card(s, e.conn, e.card)
      [] e.op = "reveal_cards" -> reveal_cards(s, e.conn)
      [] e.op = "end_turn" -> end_turn(s, e.conn)

\* the events the server can be handed in state s: those of its open connections,
\* a join naming an id a client can name
Enabled(s) ==
    {e \in SocketEvents :
        s.connected[e.conn] = "open" /\ (e.op = "join" => e.game \in Nameable(s))}

\* the game an event of connection c is addressed to
Target(s, e) == IF e.op = "join" THEN e.game ELSE GameOf(s, e.conn)

\* the roster of a game, and the ids of those with a pick
Roster(game) == DOMAIN game.players
Picked(game) == {p \in Roster(game) : game.players[p].pick # NoPick}

(* ------------------------------- claims ------------------------------- *)
\* the states that differ from s only in the values of the picks made in game g:
\* whoever holds a pick holds some card of the deck, whoever holds none holds none
PickVariants(s, g) ==
    LET game == s.games[g]
    IN {[s EXCEPT !.games[g].players =
            [p \in Roster(game) |->
                IF p \in Picked(game) THEN [game.players[p] EXCEPT !.pick = v[p]]
                ELSE game.players[p]]] :
        v \in [Roster(game) -> Cards(game.deck)]}

\* the same event with another card of the deck picked (pick_card), else the event
CardVariants(s, e) ==
    IF e.op = "pick_card" /\ Known(s, Target(s, e))
          /\ e.card \in Cards(GetGame(s, Target(s, e)).deck)
    THEN {[e EXCEPT !.card = k] : k \in Cards(GetGame(s, Target(s, e)).deck)}
    ELSE {e}

\* the outcome leaves the game the event is addressed to unrevealed
LeavesUnrevealed(s, e, r) ==
    /\ r.ok
    /\ Target(s, e) \in DOMAIN r.st.games
    /\ ~r.st.games[Target(s, e)].revealed

\* C1: while a session is unrevealed, what a handler returns and broadcasts does
\* not depend on the values of the picks made: the same event handled in two
\* states that differ only in which cards were picked (the card of a pick_card
\* event included) yields the same reply and the same messages, and every
\* snapshot among them shows each pick as withheld.
C1_PreRevealSnapshotsHidePicks ==
    \A e \in Enabled(S) :
        LET r == Handle(S, e)
        IN LeavesUnrevealed(S, e, r) =>
              /\ \A i \in 1..Len(r.emitted) :
                    r.emitted[i].event = "state" =>
                       \A p \in DOMAIN r.emitted[i].payload.participants :
                          r.emitted[i].payload.participants[p].pick = Withheld
              /\ \A g \in DOMAIN games : \A v \in PickVariants(S, g) :
                    \A e2 \in CardVariants(S, e) :
                       LET r2 == Handle(v, e2)
                       IN r2.reply = r.reply /\ r2.emitted = r.emitted

\* C1 witness: an unrevealed game with two participants holding different cards,
\* followed by an open connection of its room
C1_Witness ==
    \E g \in DOMAIN games : \E p, q \in Roster(games[g]) : \E c \in Conns :
        /\ ~games[g].revealed
        /\ games[g].players[p].pick \notin {NoPick, games[g].players[q].pick}
        /\ games[g].players[q].pick # NoPick
        /\ connected[c] = "open" /\ GameOf(S, c) = g /\ g \in rooms[c]

\* a live connection whose session addresses an addressable game
InGame(s, c) == s.connected[c] = "open" /\ GameOf(s, c) # Unset /\ Known(s, GameOf(s, c))

\* C2: reveal, after any picks made by the participants of a session, returns
\* normally and broadcasts first a snapshot with revealed=true whose participants
\* are the roster, each shown with hasPicked and pick equal to the last card it
\* picked in this round, and with no pick when it picked none.
C2_RevealExposesExactlyThePicks ==
    \A c \in Conns :
        InGame(S, c) =>
           LET g == GameOf(S, c)
               r == reveal_cards(S, c)
               snap == r.emitted[1].payload
           IN /\ r.ok
              /\ Len(r.emitted) >= 1
              /\ r.emitted[1].event = "state" /\ r.emitted[1].to = g
              /\ snap.revealed = TRUE
              /\ DOMAIN snap.participants = Roster(GetGame(S, g))
              /\ \A p \in DOMAIN snap.participants :
                    /\ snap.participants[p].pick = lastPick[p]
                    /\ snap.participants[p].hasPicked = (lastPick[p] # NoPick)

\* C2 witness: reveal has acted on a game where one participant picked a card
\* and another picked none
C2_Witness ==
    \E g \in DOMAIN games : \E p, q \in Roster(games[g]) :
        /\ games[g].revealed
        /\ lastPick[p] # NoPick /\ games[g].players[p].pick = lastPick[p]
        /\ lastPick[q] = NoPick /\ games[g].players[q].pick = NoPick

\* C3: end_turn handled for a connection of a session returns normally whatever
\* the roster and the revealed flag are; it leaves turn one higher, every pick
\* unset and revealed=false, and handled twice in a row it leaves turn two higher,
\* with the picks unset and revealed=false after each of the two.
C3_EndTurnTwice ==
    \A c \in Conns :
        InGame(S, c) =>
           LET g == GameOf(S, c)
               g0 == GetGame(S, g)
               r1 == end_turn(S, c)
               r2 == end_turn(r1.st, c)
               \* the same session once every participant is gone
               e1 == end_turn(SetGame(S, g, [g0 EXCEPT !.players = EmptyMap]), c)
           IN /\ r1.ok /\ r2.ok /\ e1.ok
              /\ r1.st.games[g].turn = g0.turn + 1
              /\ r2.st.games[g].turn = g0.turn + 2
              /\ e1.st.games[g].turn = g0.turn + 1
              /\ \A r \in {r1, r2, e1} :
                    /\ Picked(r.st.games[g]) = {}
                    /\ ~r.st.games[g].revealed
                    /\ r.emitted[1].event = "state"
                    /\ r.emitted[1].payload = State(g, r.st.games[g])
              /\ Roster(r1.st.games[g]) = Roster(g0)
              /\ Roster(r2.st.games[g]) = Roster(g0)

\* C3 witness: end_turn has acted (the turn is past the first) on a session with
\* participants, none holds a pick, and a connection of the session is there to
\* send it again
C3_Witness ==
    \E c \in Conns :
        /\ InGame(S, c)
        /\ GameOf(S, c) \in DOMAIN games
        /\ games[GameOf(S, c)].turn >= 1
        /\ Roster(games[GameOf(S, c)]) # {}
        /\ Picked(games[GameOf(S, c)]) = {}
        /\ ~games[GameOf(S, c)].revealed

\* C4: a join of an addressable session immediately followed by the disconnect of
\* the joining connection (the leave with the participant id the join assigned)
\* leaves the session as it was before the join: the same roster ids, the same
\* displayName, isSpectator and currentPick for each, and the same revealed,
\* turn, name and deck.
C4_JoinThenLeaveRestores ==
    \A e \in Enabled(S) :
        (e.op = "join" /\ Known(S, e.game)) =>
           LET r1 == Handle(S, e)
               r2 == disconnect(r1.st, e.conn)
           IN /\ r1.ok /\ r2.ok
              /\ r1.reply.playerId = PlayerOf(r1.st, e.conn)
              /\ r1.reply.playerId \in Roster(GetGame(r1.st, e.game))
              /\ r1.reply.playerId \notin Roster(GetGame(S, e.game))
              /\ GetGame(r2.st, e.game) = GetGame(S, e.game)

\* C4 witness: a connection has joined and left (its session is reset) while
\* another participant of the same game, holding a pick, is still in the roster
C4_Witness ==
    \E c \in Conns : \E g \in DOMAIN games : \E p \in Roster(games[g]) :
        /\ connected[c] = "closed"
        /\ PlayerOf(S, c) = NoneId
        /\ rooms[c] = {}
        /\ nextPid > p + 1
        /\ games[g].players[p].pick # NoPick

\* C5: set_deck handled for a connection of a session returns normally and leaves
\* every pick unset and revealed=false, whether the deck named is the current
\* one, another one or one the catalog does not know, and whether or not the
\* session was revealed; the snapshot it broadcasts shows the same.
C5_SetDeckRestartsRound ==
    \A c \in Conns : \A d \in DeckInputs :
        InGame(S, c) =>
           LET g == GameOf(S, c)
               r == set_deck(S, c, d)
           IN /\ r.ok
              /\ r.st.games[g].deck = Resolve(d)
              /\ Picked(r.st.games[g]) = {}
              /\ ~r.st.games[g].revealed
              /\ Roster(r.st.games[g]) = Roster(GetGame(S, g))
              /\ r.emitted[2].event = "state"
              /\ ~r.emitted[2].payload.revealed
              /\ \A p \in Roster(GetGame(S, g)) :
                    ~r.emitted[2].payload.participants[p].hasPicked

\* C5 witness: a revealed session on the non-default deck in which a participant
\* holds the label both decks share and another holds a label only this deck has,
\* with a connection of the session there to send set_deck
C5_Witness ==
    \E c \in Conns : \E g \in DOMAIN games : \E p, q \in Roster(games[g]) :
        /\ InGame(S, c) /\ GameOf(S, c) = g
        /\ games[g].revealed
        /\ games[g].deck = "TSHIRTS"
        /\ games[g].players[p].pick = "?"
        /\ games[g].players[q].pick = "S"

\* a pick_card of connection c with this card is accepted in state s
Accepts(s, c, card) == InGame(s, c) /\ pick_card(s, c, card).ok

\* C6: picks of distinct participants are never lost.  In every state a run
\* reaches, each participant of each roster holds exactly the card of its last
\* accepted pick of the round (none if it made none); and two picks sent by two
\* connections end, in either order of handling, in the same state, with the
\* roster as before and each of the two participants holding its own card.
C6_NoLostPicks ==
    /\ \A g \in DOMAIN games : \A p \in Roster(games[g]) :
          games[g].players[p].pick = lastPick[p]
    /\ \A c1, c2 \in Conns : \A k1, k2 \in CardInputs :
          (c1 # c2 /\ Accepts(S, c1, k1) /\ Accepts(S, c2, k2)) =>
             LET r12 == pick_card(pick_card(S, c1, k1).st, c2, k2)
                 r21 == pick_card(pick_card(S, c2, k2).st, c1, k1)
                 g1 == GameOf(S, c1)
                 g2 == GameOf(S, c2)
             IN /\ r12.ok /\ r21.ok
                /\ r12.st = r21.st
                /\ Roster(r12.st.games[g1]) = Roster(GetGame(S, g1))
                /\ Roster(r12.st.games[g2]) = Roster(GetGame(S, g2))
                /\ PlayerOf(S, c1) # PlayerOf(S, c2)
                /\ r12.st.games[g1].players[PlayerOf(S, c1)].pick = k1
                /\ r12.st.games[g2].players[PlayerOf(S, c2)].pick = k2

\* C6 witness: two connections have each picked, in one game, a card of their
\* own, and both cards are in the roster
C6_Witness ==
    \E c1, c2 \in Conns : \E g \in DOMAIN games :
        /\ c1 # c2
        /\ InGame(S, c1) /\ InGame(S, c2)
        /\ GameOf(S, c1) = g /\ GameOf(S, c2) = g
        /\ {PlayerOf(S, c1), PlayerOf(S, c2)} \subseteq Roster(games[g])
        /\ games[g].players[PlayerOf(S, c1)].pick = "1"
        /\ games[g].players[PlayerOf(S, c2)].pick = "?"
        /\ lastPick[PlayerOf(S, c1)] = "1"
        /\ lastPick[PlayerOf(S, c2)] = "?"

\* the snapshot an outcome broadcasts first is the game as the outcome leaves it
ShowsOutcome(r, g) ==
    /\ r.emitted[1].event = "state"
    /\ r.emitted[1].payload = State(g, r.st.games[g])

\* C7: a pick_card and an end_turn sent to one session are handled one after the
\* other, in either order.  Pick first: the end state has every pick unset and
\* the turn one higher.  end_turn first: the end state has the new pick as the
\* only pick and the turn one higher.  The snapshot of every step is the game as
\* that step leaves it, so the snapshots of end_turn show no pick at all: none
\* shows the picks cleared in part.
C7_PickRacingEndTurn ==
    \A c1, c2 \in Conns : \A k \in CardInputs :
        (Accepts(S, c1, k) /\ InGame(S, c2) /\ GameOf(S, c2) = GameOf(S, c1)) =>
           LET g == GameOf(S, c1)
               p == PlayerOf(S, c1)
               t == GetGame(S, g).turn
               rp == pick_card(S, c1, k)
               rpe == end_turn(rp.st, c2)
               re == end_turn(S, c2)
               rep == pick_card(re.st, c1, k)
           IN /\ rp.ok /\ rpe.ok /\ re.ok /\ rep.ok
              /\ \A r \in {rp, rpe, re, rep} : ShowsOutcome(r, g)
              /\ Picked(rp.st.games[g]) = Picked(GetGame(S, g)) \cup {p}
              /\ rp.st.games[g].turn = t
              /\ \A r \in {rpe, re} :
                    /\ Picked(r.st.games[g]) = {}
                    /\ r.st.games[g].turn = t + 1
                    /\ ~r.st.games[g].revealed
                    /\ \A q \in DOMAIN r.emitted[1].payload.participants :
                          ~r.emitted[1].payload.participants[q].hasPicked
              /\ Picked(rep.st.games[g]) = {p}
              /\ rep.st.games[g].players[p].pick = k
              /\ rep.st.games[g].turn = t + 1
              /\ ~rep.st.games[g].revealed

\* C7 witness: after an end_turn exactly one of the two participants of a game,
\* both connected, holds a pick
C7_Witness ==
    \E c1, c2 \in Conns : \E g \in DOMAIN games :
        /\ c1 # c2
        /\ InGame(S, c1) /\ InGame(S, c2)
        /\ GameOf(S, c1) = g /\ GameOf(S, c2) = g
        /\ games[g].turn >= 1
        /\ Roster(games[g]) = {PlayerOf(S, c1), PlayerOf(S, c2)}
        /\ Picked(games[g]) = {PlayerOf(S, c1)}

\* C8: a rejected operation changes nothing: in every step in which a handler
\* ends in an error, the live games and the durable records stay as they were,
\* and so do the session keys and the room membership of the calling connection
\* (a disconnect aside, after which the connection is gone).
C8_RejectedChangesNothing ==
    [][\A e \in Enabled(S) :
          LET r == Handle(S, e)
          IN (~r.ok /\ S' = r.st) =>
                /\ games' = games
                /\ stored' = stored
                /\ e.op # "disconnect" =>
                      /\ session'[e.conn] = session[e.conn]
                      /\ rooms'[e.conn] = rooms[e.conn]]_vars

\* C9: an operation that fails answers the originating connection with the
\* structured error (error flag, message, code: the exception's own code for
\* NotFound and InvalidInput) and emits nothing to any room; every connection
\* stays open and is served further (the closing one of a disconnect aside).
C9_ErrorsAnsweredNotBroadcast ==
    \A e \in Enabled(S) :
        LET r == Handle(S, e)
        IN ~r.ok =>
              /\ r.emitted = <<>>
              /\ r.reply.kind = "error"
              /\ r.reply.error = TRUE
              /\ r.reply.message \in {"NotFound", "InvalidInput", "KeyError"}
              /\ r.reply.code = IF r.reply.message = "KeyError" THEN "0"
                                ELSE r.reply.message
              /\ \A d \in Conns :
                    (d # e.conn \/ e.op # "disconnect") =>
                       r.st.connected[d] = connected[d]

\* C9 witness: two connections are in the room of a game both joined, so that a
\* pick of a card outside the deck (InvalidInput) or an empty rename by one of
\* them has the other as audience
C9_Witness ==
    \E c, d \in Conns : \E k \in CardInputs :
        /\ c # d
        /\ InGame(S, c) /\ InGame(S, d) /\ GameOf(S, c) = GameOf(S, d)
        /\ GameOf(S, c) \in rooms[c] \cap rooms[d]
        /\ pick_card(S, c, k).reply.code = "InvalidInput"
        /\ rename_game(S, c, "").reply.code = "InvalidInput"

\* the participants whose pick differs between s and t although they are in a
\* game that is revealed in s, are not spectators and are still in it in t
ChangedFrozen(s, t) ==
    {p \in PlayerIds :
        \E g \in DOMAIN s.games :
            /\ s.games[g].revealed
            /\ p \in Roster(s.games[g]) \cap Roster(t.games[g])
            /\ ~s.games[g].players[p].spectator
            /\ t.games[g].players[p].pick # s.games[g].players[p].pick}

\* C10 as claimed: while revealed=true no operation other than end_turn and
\* set_deck changes the currentPick of a non-spectator participant.
C10_FrozenWhileRevealed ==
    \A e \in Enabled(S) :
        e.op \notin {"end_turn", "set_deck"} =>
            ChangedFrozen(S, Handle(S, e).st) = {}

\* C10 as amended: while revealed=true the currentPick of a non-spectator
\* participant is changed only by end_turn, by set_deck and by a pick_card of
\* that participant itself; every other operation, the picks of the other
\* participants included, leaves it as it is.
C10_FrozenButForOwnPick ==
    \A e \in Enabled(S) :
        e.op \notin {"end_turn", "set_deck"} =>
            ChangedFrozen(S, Handle(S, e).st) \subseteq
                (IF e.op = "pick_card" THEN {PlayerOf(S, e.conn)} ELSE {})

\* C10 witness: a revealed game with two connected participants who are not
\* spectators and hold picks
C10_Witness ==
    \E c1, c2 \in Conns : \E g \in DOMAIN games :
        /\ c1 # c2
        /\ InGame(S, c1) /\ InGame(S, c2)
        /\ GameOf(S, c1) = g /\ GameOf(S, c2) = g
        /\ games[g].revealed
        /\ \A c \in {c1, c2} :
              /\ PlayerOf(S, c) \in Picked(games[g])
              /\ ~games[g].players[PlayerOf(S, c)].spectator

\* the ids create or an import has handed out
HandedOut(s) == 1..(s.nextGame - 1)

GetOnly == {"join", "set_deck", "reveal_cards", "end_turn"}

WrittenThrough ==
    \A e \in Enabled(S) :
        LET g == Target(S, e)
            r == Handle(S, e)
        IN (e.op \in {"rename_game", "set_deck"} /\ r.ok) =>
              /\ r.st.stored[g].name = r.st.games[g].name
              /\ r.st.stored[g].deck = r.st.games[g].deck

\* a durable record holds a name and a deck and nothing else
RecordsOnly == \A g \in DOMAIN stored : DOMAIN stored[g] = {"name", "deck"}

\* C13 as claimed: write-through.  A successful rename_game or set_deck leaves
\* the durable record with the name and deck of the live session; in every state
\* between two handlers the record of every live session has the session's name
\* and deck; a record holds no participant or round data.
C13_WriteThrough ==
    /\ WrittenThrough
    /\ RecordsOnly
    /\ \A g \in DOMAIN games :
          /\ g \in DOMAIN stored
          /\ stored[g].name = games[g].name
          /\ stored[g].deck = games[g].deck

\* C13 as amended: as above, but between two handlers the record's deck is a name
\* the catalog resolves to the deck of the live session: the two are equal unless
\* the record holds a deck name the catalog does not know (an imported record),
\* which stays in the record until the next successful rename_game or set_deck
\* of the session.
C13_WriteThroughResolved ==
    /\ WrittenThrough
    /\ RecordsOnly
    /\ \A g \in DOMAIN games :
          /\ g \in DOMAIN stored
          /\ stored[g].name = games[g].name
          /\ Resolve(stored[g].deck) = games[g].deck
          /\ stored[g].deck # games[g].deck => stored[g].deck \notin DeckNames

\* C13 witness: a live session whose record still holds the unknown deck name it
\* was imported with, a connection of the session there to send rename_game or
\* set_deck, and another session whose record and live deck are the non-default
\* deck
C13_Witness ==
    \E g, h \in DOMAIN games : \E c \in Conns :
        /\ stored[g].deck = "BOGUS"
        /\ games[g].deck = DefaultDeck
        /\ InGame(S, c) /\ GameOf(S, c) = g
        /\ rename_game(S, c, "T").ok /\ set_deck(S, c, "TSHIRTS").ok
        /\ stored[h].deck = "TSHIRTS" /\ games[h].deck = "TSHIRTS"

\* C14: create.  With the store up, create(name, deck) for any name and deck
\* returns normally an id that was not handed out before and that no record or
\* live session has, leaves a record with the name and the resolved deck under
\* that id and a live session that is empty, unrevealed and addressable, and
\* leaves every other record and session alone.  With the store down it ends in
\* the store's exception, propagated to the caller, and the records, the live
\* sessions and the set of addressable ids are as before.
C14_Create ==
    /\ (DOMAIN stored) \cup (DOMAIN games) \subseteq HandedOut(S)
    /\ \A name \in GameNames, deck \in DeckInputs :
          LET r == create(S, name, deck, TRUE)
              g == r.reply.info.sessionId
              f == create(S, name, deck, FALSE)
          IN /\ r.ok /\ r.reply.kind = "id"
             /\ g \notin HandedOut(S)
             /\ g \in HandedOut(r.st)
             /\ r.st.stored = Put(stored, g, [name |-> name, deck |-> Resolve(deck)])
             /\ g \notin DOMAIN stored /\ g \notin DOMAIN games
             /\ r.st.games = Put(games, g, r.st.games[g])
             /\ Roster(r.st.games[g]) = {}
             /\ ~r.st.games[g].revealed
             /\ r.st.games[g].name = name /\ r.st.games[g].deck = Resolve(deck)
             /\ Known(r.st, g)
             /\ ~f.ok /\ f.reply.kind = "exception"
             /\ f.reply.message = "StoreUnavailable"
             /\ f.st = S
             /\ \A h \in GameInputs : Known(f.st, h) = Known(S, h)

\* C14 witness: create has acted twice: two ids, each with its record (a deck
\* name of the catalog) and its empty unrevealed session
C14_Witness ==
    /\ nextGame = 3
    /\ DOMAIN stored = {1, 2} /\ DOMAIN games = {1, 2}
    /\ stored[1].deck = "TSHIRTS" /\ stored[2].deck = DefaultDeck
    /\ \A g \in {1, 2} : Roster(games[g]) = {} /\ ~games[g].revealed

\* the open connections whose participant is in the roster of game g in state s
Participants(s, g) ==
    {d \in Conns : /\ s.connected[d] = "open"
                   /\ GameOf(s, d) = g
                   /\ PlayerOf(s, d) \in Roster(s.games[g])}

\* the outcome r of an event addressed to game g broadcasts the full snapshot of
\* the game as the event leaves it, to the room of the game, where every
\* connected participant receives it
BroadcastsState(r, g) ==
    \E i \in 1..Len(r.emitted) :
        /\ r.emitted[i].event = "state"
        /\ r.emitted[i].to = g
        /\ r.emitted[i].payload = State(g, r.st.games[g])
        /\ Participants(r.st, g) \subseteq r.emitted[i].rcpt

\* C15: every successful mutating operation (join, disconnect, rename_game,
\* set_deck, set_player_name, set_spectator, pick_card, reveal_cards, end_turn)
\* broadcasts the full state snapshot of its session, as the operation leaves it,
\* to all connections of the session.
C15_EveryOperationBroadcastsState ==
    \A e \in Enabled(S) :
        LET r == Handle(S, e)
        IN r.ok => BroadcastsState(r, Target(S, e))

\* the disconnect of connection c in state s removes its participant from the
\* roster of its session when present and changes nothing else of any session; a
\* leave of the same id after it changes nothing
LeaveRemoves(s, c) ==
    LET r == disconnect(s, c)
        g == GameOf(s, c)
        pid == PlayerOf(s, c)
    IN /\ r.ok
       /\ r.st.stored = s.stored
       /\ r.st.games = Put(s.games, g, r.st.games[g])
       /\ r.st.games[g] = [GetGame(s, g) EXCEPT
                              !.players = [p \in Roster(GetGame(s, g)) \ {pid} |->
                                              GetGame(s, g).players[p]]]
       /\ LeaveGame(r.st.games[g], pid) = r.st.games[g]

\* C16: leave removes the participant when present and is idempotent when absent.
\* The disconnect of a connection whose session is addressable removes its
\* participant and nothing else, and a second leave of that id changes nothing;
\* the disconnect of a connection that never joined returns without error and
\* leaves every session and record as it was.
C16_LeaveIdempotent ==
    \A c \in Conns :
        connected[c] = "open" =>
           /\ InGame(S, c) => LeaveRemoves(S, c)
           /\ GameOf(S, c) = Unset =>
                 /\ disconnect(S, c).ok
                 /\ disconnect(S, c).st.games = games
                 /\ disconnect(S, c).st.stored = stored

\* state s with the roster of game g emptied
Emptied(s, g) == SetGame(s, g, [GetGame(s, g) EXCEPT !.players = EmptyMap])

\* C17: reveal_cards handled for a connection of an addressable session returns
\* normally.  With a participant in the roster the session is left with
\* revealed=true and with the roster, every pick, the turn, the name and the deck
\* as before; the same session with nobody in the roster is left exactly as it
\* was, revealed included.  No other session, no record and no connection's
\* session keys or rooms change.
C17_RevealFrame ==
    \A c \in Conns :
        InGame(S, c) =>
           LET g == GameOf(S, c)
               g0 == GetGame(S, g)
               r == reveal_cards(S, c)
               e0 == Emptied(S, g)
               re == reveal_cards(e0, c)
           IN /\ r.ok /\ re.ok
              /\ Roster(g0) # {} => r.st.games[g] = [g0 EXCEPT !.revealed = TRUE]
              /\ Roster(g0) = {} => r.st.games[g] = g0
              /\ r.st = [S EXCEPT !.games = Put(games, g, r.st.games[g])]
              /\ re.st.games[g] = e0.games[g]
              /\ re.st.games[g].revealed = g0.revealed
              /\ re.st = e0

\* C17 witness: reveal has acted on a session past its first turn, on the
\* non-default deck, where one participant holds a pick and a spectator holds
\* none
C17_Witness ==
    \E c \in Conns : \E g \in DOMAIN games : \E p, q \in Roster(games[g]) :
        /\ InGame(S, c) /\ GameOf(S, c) = g
        /\ games[g].revealed
        /\ games[g].turn = 1
        /\ games[g].deck = "TSHIRTS"
        /\ games[g].players[p].pick = "S"
        /\ games[g].players[q].spectator /\ games[g].players[q].pick = NoPick

\* the participant ids that are in the roster of some live session of state s
InRosters(s) == UNION {Roster(s.games[g]) : g \in DOMAIN s.games}

\* the ids that enter the roster of game g in a step
Entering(g) ==
    Roster(games'[g]) \ (IF g \in DOMAIN games THEN Roster(games[g]) ELSE {})

\* C18: participant ids are never reused.  Every id in a roster or in a
\* connection's session was handed out before (it is below the next fresh id),
\* the next fresh id never goes down, and an id that enters a roster in a step
\* is the fresh one, which that step uses up: it differs from every id that is
\* or ever was in a roster, and its participant has no pick.
C18_ParticipantIdsNeverReused ==
    [][/\ InRosters(S) \subseteq 1..(nextPid - 1)
       /\ \A c \in Conns : PlayerOf(S, c) < nextPid
       /\ nextPid' >= nextPid
       /\ \A g \in DOMAIN games' : \A p \in Entering(g) :
             /\ p = nextPid
             /\ nextPid' > p
             /\ games'[g].players[p].pick = NoPick]_vars

\* C18 witness: a participant has left its session (its connection is closed, the
\* session keys reset, its id in no roster) and the session was joined again,
\* under the next id and with no pick
C18_Witness ==
    \E c, d \in Conns : \E g \in DOMAIN games :
        /\ connected[c] = "closed" /\ PlayerOf(S, c) = NoneId
        /\ 1 \notin InRosters(S)
        /\ InGame(S, d) /\ GameOf(S, d) = g /\ PlayerOf(S, d) = 2
        /\ 2 \in Roster(games[g])
        /\ games[g].players[2].pick = NoPick
        /\ nextPid = 3

\* C19: in every state every participant's pick is unset or a card of the deck
\* its session has at that moment.  A pick_card with a card outside the deck of
\* the session is answered InvalidInput, and a set_deck leaves no pick.
C19_PicksAreCardsOfTheDeck ==
    /\ \A g \in DOMAIN games : \A p \in Roster(games[g]) :
          games[g].players[p].pick \in {NoPick} \cup Cards(games[g].deck)
    /\ \A c \in Conns :
          InGame(S, c) =>
             /\ \A k \in CardInputs :
                   LET r == pick_card(S, c, k)
                   IN /\ r.ok = (k \in Cards(GetGame(S, GameOf(S, c)).deck))
                      /\ ~r.ok => r.reply.code = "InvalidInput"
             /\ \A d \in DeckInputs :
                   Picked(set_deck(S, c, d).st.games[GameOf(S, c)]) = {}

\* C19 witness: two sessions on different decks, in each a participant holding a
\* card that only the deck of its session has
C19_Witness ==
    \E g, h \in DOMAIN games : \E p \in Roster(games[g]) : \E q \in Roster(games[h]) :
        /\ games[g].deck = "TSHIRTS" /\ games[g].players[p].pick = "S"
        /\ games[h].deck = "FIBONACCI" /\ games[h].players[q].pick = "1"

\* the deck names the catalog does not know
UnknownDecks == DeckInputs \ DeckNames

\* C20: in every state the deck of every live session is a name of the catalog.
\* create and set_deck with a name the catalog does not know return normally and
\* leave the default deck in the session and in its record, and a join to a
\* record without live session whose deck name the catalog does not know builds
\* the session with the default deck.
C20_DeckAlwaysResolvable ==
    /\ \A g \in DOMAIN games : games[g].deck \in DeckNames
    /\ \A d \in UnknownDecks :
          /\ \A name \in GameNames :
                LET r == create(S, name, d, TRUE)
                    g == r.reply.info.sessionId
                IN /\ r.ok
                   /\ r.st.games[g].deck = DefaultDeck
                   /\ r.st.stored[g].deck = DefaultDeck
          /\ \A c \in Conns :
                InGame(S, c) =>
                   LET r == set_deck(S, c, d)
                       g == GameOf(S, c)
                   IN /\ r.ok
                      /\ r.st.games[g].deck = DefaultDeck
                      /\ r.st.stored[g].deck = DefaultDeck
    /\ \A e \in Enabled(S) :
          (/\ e.op = "join"
           /\ e.game \in DOMAIN stored
           /\ e.game \notin DOMAIN games
           /\ stored[e.game].deck \in UnknownDecks) =>
             /\ Handle(S, e).ok
             /\ Handle(S, e).st.games[e.game].deck = DefaultDeck

\* C20 witness: of two records imported with a deck name the catalog does not
\* know, one has a live session, built with the default deck by the join of its
\* participant, and the other has none yet
C20_Witness ==
    \E g \in DOMAIN games : \E h \in DOMAIN stored :
        /\ h \notin DOMAIN games
        /\ stored[g].deck \in UnknownDecks /\ stored[h].deck \in UnknownDecks
        /\ games[g].deck = DefaultDeck
        /\ Roster(games[g]) # {}
        /\ \E c \in Conns : connected[c] = "open" /\ GameOf(S, c) = Unset

\* the participants state s accounts to game g: the player ids of the open
\* connections whose latest join (the one the session keys are from) named g
Accounted(s, g) ==
    {PlayerOf(s, c) : c \in {d \in Conns : s.connected[d] = "open" /\ GameOf(s, d) = g}}

\* C21: the roster of each session holds exactly the participants whose
\* connection is live and whose latest join named that session; no participant
\* is in a roster once its connection is closed, also when the connection sent
\* join more than once.
C21_RosterIsLiveConnections ==
    \A g \in DOMAIN games : Roster(games[g]) = Accounted(S, g)

\* C22: a connection is in the broadcast room of at most one session, the one
\* whose id its session keys hold, and in none once it is closed; so the state
\* and info messages a handler emits reach only connections whose session keys
\* name the session the message is about.
C22_OneRoomPerConnection ==
    /\ \A c \in Conns :
          /\ Cardinality(rooms[c]) <= 1
          /\ rooms[c] \subseteq {GameOf(S, c)}
          /\ connected[c] = "closed" => rooms[c] = {}
    /\ \A e \in Enabled(S) :
          LET r == Handle(S, e)
          IN \A i \in 1..Len(r.emitted) : \A d \in r.emitted[i].rcpt :
                GameOf(r.st, d) = r.emitted[i].to \/ (d = e.conn /\ e.op = "disconnect")

\* C23: the turn counter changes only through end_turn, by exactly 1.  Every
\* event leaves the turn of every addressable session as it was, except a
\* successful end_turn, which leaves the turn of the session it is addressed to
\* one higher; create leaves the turn of every session there is as it was and
\* starts the new one at turn 0; no turn is negative.
C23_TurnFrame ==
    /\ \A g \in DOMAIN games : games[g].turn >= 0
    /\ \A e \in Enabled(S) :
          LET st == Handle(S, e).st
              ended == IF e.op = "end_turn" /\ Handle(S, e).ok
                       THEN {Target(S, e)} ELSE {}
          IN \A g \in (DOMAIN stored) \cup (DOMAIN games) :
                /\ Known(st, g)
                /\ GetGame(st, g).turn =
                      GetGame(S, g).turn + (IF g \in ended THEN 1 ELSE 0)
    /\ \A name \in GameNames, d \in DeckInputs :
          LET r == create(S, name, d, TRUE)
          IN /\ r.st.games[r.reply.info.sessionId].turn = 0
             /\ \A g \in GameInputs :
                   Known(S, g) => GetGame(r.st, g).turn = GetGame(S, g).turn

\* C23 witness: a session whose turn was ended once and in which, since then,
\* both participants have picked and the cards were revealed
C23_Witness ==
    \E g \in DOMAIN games : \E c, d \in Conns :
        /\ c # d /\ InGame(S, c) /\ InGame(S, d)
        /\ GameOf(S, c) = g /\ GameOf(S, d) = g
        /\ games[g].turn = 1
        /\ games[g].revealed
        /\ Picked(games[g]) = {PlayerOf(S, c), PlayerOf(S, d)}
        /\ PlayerOf(S, c) # PlayerOf(S, d)

\* C24: sessions are isolated.  An event of a connection leaves every session
\* other than the one it is addressed to as it was (roster, picks, revealed,
\* turn, name, deck) and its record as it was, and emits no message to the room
\* of another session.
C24_SessionsIsolated ==
    \A e \in Enabled(S) :
        LET r == Handle(S, e)
            a == Target(S, e)
        IN /\ \A b \in ((DOMAIN games) \cup (DOMAIN stored)) \ {a} :
                 /\ Known(r.st, b)
                 /\ GetGame(r.st, b) = GetGame(S, b)
                 /\ r.st.stored[b] = stored[b]
                 /\ (b \in DOMAIN r.st.games) = (b \in DOMAIN games)
           /\ \A i \in 1..Len(r.emitted) : r.emitted[i].to = a

\* C24 witness: two sessions, each with a connected participant of its own; in
\* one the turn was ended, the deck changed and a card picked and revealed, the
\* other is at its first turn, unrevealed, on the default deck, with a pick
C24_Witness ==
    \E c, d \in Conns :
        /\ InGame(S, c) /\ InGame(S, d)
        /\ GameOf(S, c) = 1 /\ GameOf(S, d) = 2
        /\ DOMAIN games = {1, 2}
        /\ Roster(games[1]) = {PlayerOf(S, c)} /\ Roster(games[2]) = {PlayerOf(S, d)}
        /\ games[1].turn = 1 /\ games[1].revealed /\ games[1].deck = "TSHIRTS"
        /\ games[1].players[PlayerOf(S, c)].pick = "S"
        /\ games[2].turn = 0 /\ ~games[2].revealed /\ games[2].deck = DefaultDeck
        /\ games[2].players[PlayerOf(S, d)].pick = "1"

====
